---- MODULE Spec2Model ----
(***************************************************************************)
(* Mock Drone Sensor Systems (src/main.py): three HTTP handlers over a     *)
(* static catalog of five drones.  Floats are fixed-point integers in      *)
(* units of 1e-4 (32.0853 is 320853, the default delta 0.0005 is 5, the    *)
(* altitude noise 5 is 50000).  Strings that the code splits are sequences *)
(* of one-character strings.  The wall clock counts ticks since the epoch, *)
(* TicksPerSec ticks to the second.                                        *)
(***************************************************************************)
EXTENDS Integers, Sequences, FiniteSets, TLC

VARIABLES
    base_drones,  \* the module-level list BASE_DRONES
    clock,        \* the system clock, in ticks since the epoch
    pc,           \* per request slot: "idle", "a_loop" or "b_loop"
    idx,          \* per request slot: position of the for-loop's list iterator
    responses,    \* per request slot: the handler's local list `responses`
    returned,     \* per client: the response it holds, [endpoint, body]
    seen          \* per client: endpoint and timestamps of the response it held before

vars == <<base_drones, clock, pc, idx, responses, returned, seen>>

----------------------------------------------------------------------------
(* Bounds of the model *)

MaxReq == 2        \* request slots (clients) that may be in flight at once
MaxClock == 3      \* the clock is followed for this many ticks
TicksPerSec == 2   \* clock ticks per second (datetime: 1000000)

Requests == 1..MaxReq

----------------------------------------------------------------------------
(* Program constants *)

DefaultDelta == 5     \* jitter's default delta, 0.0005
AltNoise == 50000     \* random.uniform(-5, 5)

BASE_DRONES ==
    << [id |-> "DRN-1", lat |-> 320853, lon |-> 347818, alt |-> 1200000,
        model |-> <<"D","J","I"," ","M","i","n","i"," ","3">>, manufacturer |-> "DJI"],
       [id |-> "DRN-2", lat |-> 320861, lon |-> 347825, alt |-> 980000,
        model |-> <<"D","J","I"," ","A","i","r"," ","2">>, manufacturer |-> "DJI"],
       [id |-> "DRN-3", lat |-> 320847, lon |-> 347809, alt |-> 1500000,
        model |-> <<"A","u","t","e","l"," ","E","v","o">>, manufacturer |-> "Autel"],
       [id |-> "DRN-4", lat |-> 320870, lon |-> 347831, alt |-> 1100000,
        model |-> <<"P","a","r","r","o","t"," ","A","n","a","f","i">>, manufacturer |-> "Parrot"],
       [id |-> "DRN-5", lat |-> 320839, lon |-> 347798, alt |-> 1300000,
        model |-> <<"D","J","I"," ","M","i","n","i"," ","2">>, manufacturer |-> "DJI"] >>

----------------------------------------------------------------------------
(* Utility *)

\* Mutant of now_epoch: the clock's sub-second count, not truncated to seconds.
now_epoch_untruncated(c) == c

\* int(datetime.now(tz=utc).timestamp()): whole seconds, the fraction dropped.
now_epoch(c) == c \div TicksPerSec

\* datetime.now(tz=utc).isoformat(): date and time to the second, the
\* sub-second part (omitted by isoformat when it is zero), the UTC offset.
now_iso(c) ==
    IF c % TicksPerSec = 0
    THEN [seconds |-> c \div TicksPerSec, offset |-> "+00:00"]
    ELSE [seconds |-> c \div TicksPerSec, fraction |-> c % TicksPerSec, offset |-> "+00:00"]

\* The values random.random() yields, as multiples of the interval's width:
\* the two ends of uniform's range (uniform may return either end point).
RandomValues == {0, 1}

\* The one value fed to the handlers where the random draws are not enumerated.
FixedRandom == {0}

\* random.uniform(a, b) == a + (b - a) * random()
uniform(a, b, k) == a + (b - a) * k

\* Mutant of jitter: the perturbation applied twice over.
jitter_doubled(value, delta, k) == value + 2 * uniform(-delta, delta, k)

\* jitter(value, delta): value + random.uniform(-delta, delta)
jitter(value, delta, k) == value + uniform(-delta, delta, k)

\* str.split(): the maximal runs of non-whitespace characters, in order.
Whitespace == {" ", "\t", "\n", "\r"}

RECURSIVE SplitFrom(_, _, _, _)
SplitFrom(s, i, cur, acc) ==
    IF i > Len(s)
    THEN IF cur # <<>> THEN Append(acc, cur) ELSE acc
    ELSE IF s[i] \in Whitespace
         THEN SplitFrom(s, i + 1, <<>>, IF cur # <<>> THEN Append(acc, cur) ELSE acc)
         ELSE SplitFrom(s, i + 1, Append(cur, s[i]), acc)

split(s) == SplitFrom(s, 1, <<>>, <<>>)

\* Mutant of LastToken: index 0 instead of -1.
FirstToken(s) == split(s)[1]

\* drone["model"].split()[-1]
LastToken(s) == split(s)[Len(split(s))]

----------------------------------------------------------------------------
(* Schemas and the two mappers (the bodies of the handlers' loops) *)

\* Mutant of drone_id: the prefix forgotten.
drone_id_unprefixed(drone) == drone.id

\* f"A-{drone['id']}"
drone_id(drone) == "A-" \o drone.id

\* f"SN-{drone['id']}"
serial(drone) == "SN-" \o drone.id

\* Mutant of coordinates: latitude first.
coordinates_lat_first(lon, lat, alt) == <<lat, lon, alt>>

\* coordinates=[lon, lat, alt]
coordinates(lon, lat, alt) == <<lon, lat, alt>>

SystemAResponse(drone, c, k1, k2, k3) ==
    [ Drone_id     |-> drone_id(drone),
      Timestamp    |-> now_epoch(c),
      Location_lat |-> jitter(drone.lat, DefaultDelta, k1),
      Location_lon |-> jitter(drone.lon, DefaultDelta, k2),
      Locatin_alt  |-> drone.alt + uniform(-AltNoise, AltNoise, k3),
      Drone_model  |-> drone.model ]

GeoJSONPoint(coords) == [type |-> "Point", coordinates |-> coords]

SystemBResponse(drone, c, k1, k2, k3) ==
    [ Serial              |-> serial(drone),
      Detection_timestamp |-> now_iso(c),
      Location            |-> GeoJSONPoint(coordinates(
                                 jitter(drone.lon, DefaultDelta, k1),
                                 jitter(drone.lat, DefaultDelta, k2),
                                 drone.alt + uniform(-AltNoise, AltNoise, k3))),
      Model               |-> LastToken(drone.model),
      manufacturer        |-> drone.manufacturer ]

\* Mutant of HealthBody: another status.
HealthBodyDown == [status |-> "down"]

HealthBody == [status |-> "ok"]

----------------------------------------------------------------------------
(* State *)

NoResponse == [endpoint |-> "none"]
NothingSeen == [endpoint |-> "none"]

\* What a client keeps of a response once it has read it.
Timestamps(resp) ==
    IF resp.endpoint = "a" THEN [i \in 1..Len(resp.body) |-> resp.body[i].Timestamp]
    ELSE IF resp.endpoint = "b" THEN [i \in 1..Len(resp.body) |-> resp.body[i].Detection_timestamp]
    ELSE <<>>

Init ==
    /\ base_drones = BASE_DRONES
    /\ clock = 0
    /\ pc = [r \in Requests |-> "idle"]
    /\ idx = [r \in Requests |-> 0]
    /\ responses = [r \in Requests |-> <<>>]
    /\ returned = [r \in Requests |-> NoResponse]
    /\ seen = [r \in Requests |-> NothingSeen]

----------------------------------------------------------------------------
(* Actions *)

\* Time passes.
Tick ==
    /\ clock < MaxClock
    /\ clock' = clock + 1
    /\ UNCHANGED <<base_drones, pc, idx, responses, returned, seen>>

\* GET /health
health(r) ==
    /\ pc[r] = "idle"
    /\ returned[r] = NoResponse
    /\ returned' = [returned EXCEPT ![r] = [endpoint |-> "health", body |-> HealthBody]]
    /\ UNCHANGED <<base_drones, clock, pc, idx, responses, seen>>

\* Mutant of appended: responses.insert(0, entry).
inserted_first(list, entry) == <<entry>> \o list

\* responses.append(entry)
appended(list, entry) == Append(list, entry)

\* Mutant of exhausted: the loop stops one entry early.
exhausted_early(i, list) == i >= Len(list) - 1

\* The list iterator of `for drone in BASE_DRONES` has nothing left at position i.
exhausted(i, list) == i >= Len(list)

\* GET /system-a/detections: responses = [], the loop starts.
get_system_a_detections_call(r) ==
    /\ pc[r] = "idle"
    /\ returned[r] = NoResponse
    /\ pc' = [pc EXCEPT ![r] = "a_loop"]
    /\ idx' = [idx EXCEPT ![r] = 0]
    /\ responses' = [responses EXCEPT ![r] = <<>>]
    /\ UNCHANGED <<base_drones, clock, returned, seen>>

\* Mutant of get_system_a_detections_step: `responses` is one module-level
\* list, so an append shows in every request's list.
get_system_a_detections_step_shared(r, R) ==
    /\ pc[r] = "a_loop"
    /\ idx[r] < Len(base_drones)
    /\ \E k1 \in R, k2 \in R, k3 \in R :
         responses' = [q \in Requests |->
             Append(responses[q], [ Drone_id     |-> "A-" \o base_drones[idx[r] + 1].id,
                                    Timestamp    |-> clock \div TicksPerSec,
                                    Location_lat |-> base_drones[idx[r] + 1].lat - DefaultDelta + 2 * DefaultDelta * k1,
                                    Location_lon |-> base_drones[idx[r] + 1].lon - DefaultDelta + 2 * DefaultDelta * k2,
                                    Locatin_alt  |-> base_drones[idx[r] + 1].alt - AltNoise + 2 * AltNoise * k3,
                                    Drone_model  |-> base_drones[idx[r] + 1].model ])]
    /\ idx' = [idx EXCEPT ![r] = @ + 1]
    /\ UNCHANGED <<base_drones, clock, pc, returned, seen>>

\* One iteration of `for drone in BASE_DRONES`; R: what random.random() may yield.
get_system_a_detections_step(r, R) ==
    /\ pc[r] = "a_loop"
    /\ ~exhausted(idx[r], base_drones)
    /\ \E k1 \in R, k2 \in R, k3 \in R :
         responses' = [responses EXCEPT ![r] =
             appended(@, SystemAResponse(base_drones[idx[r] + 1], clock, k1, k2, k3))]
    /\ idx' = [idx EXCEPT ![r] = @ + 1]
    /\ UNCHANGED <<base_drones, clock, pc, returned, seen>>

\* The iterator is exhausted: return responses.
get_system_a_detections_return(r) ==
    /\ pc[r] = "a_loop"
    /\ exhausted(idx[r], base_drones)
    /\ returned' = [returned EXCEPT ![r] = [endpoint |-> "a", body |-> responses[r]]]
    /\ pc' = [pc EXCEPT ![r] = "idle"]
    /\ idx' = [idx EXCEPT ![r] = 0]
    /\ responses' = [responses EXCEPT ![r] = <<>>]
    /\ UNCHANGED <<base_drones, clock, seen>>

\* GET /system-b/detections
get_system_b_detections_call(r) ==
    /\ pc[r] = "idle"
    /\ returned[r] = NoResponse
    /\ pc' = [pc EXCEPT ![r] = "b_loop"]
    /\ idx' = [idx EXCEPT ![r] = 0]
    /\ responses' = [responses EXCEPT ![r] = <<>>]
    /\ UNCHANGED <<base_drones, clock, returned, seen>>

get_system_b_detections_step(r, R) ==
    /\ pc[r] = "b_loop"
    /\ ~exhausted(idx[r], base_drones)
    /\ \E k1 \in R, k2 \in R, k3 \in R :
         responses' = [responses EXCEPT ![r] =
             appended(@, SystemBResponse(base_drones[idx[r] + 1], clock, k1, k2, k3))]
    /\ idx' = [idx EXCEPT ![r] = @ + 1]
    /\ UNCHANGED <<base_drones, clock, pc, returned, seen>>

get_system_b_detections_return(r) ==
    /\ pc[r] = "b_loop"
    /\ exhausted(idx[r], base_drones)
    /\ returned' = [returned EXCEPT ![r] = [endpoint |-> "b", body |-> responses[r]]]
    /\ pc' = [pc EXCEPT ![r] = "idle"]
    /\ idx' = [idx EXCEPT ![r] = 0]
    /\ responses' = [responses EXCEPT ![r] = <<>>]
    /\ UNCHANGED <<base_drones, clock, seen>>

\* The client has read its response; it remembers which endpoint it called
\* and the timestamps it was given, and may call again.
Receive(r) ==
    /\ returned[r] # NoResponse
    /\ seen' = [seen EXCEPT ![r] =
                  [endpoint |-> returned[r].endpoint, timestamps |-> Timestamps(returned[r])]]
    /\ returned' = [returned EXCEPT ![r] = NoResponse]
    /\ UNCHANGED <<base_drones, clock, pc, idx, responses>>

\* Concurrent requests, interleaved one catalog entry at a time; the clock
\* and the random source are held fixed.
Next ==
    \/ \E r \in Requests : health(r)
    \/ \E r \in Requests : get_system_a_detections_call(r)
    \/ \E r \in Requests : get_system_a_detections_step(r, FixedRandom)
    \/ \E r \in Requests : get_system_a_detections_return(r)
    \/ \E r \in Requests : get_system_b_detections_call(r)
    \/ \E r \in Requests : get_system_b_detections_step(r, FixedRandom)
    \/ \E r \in Requests : get_system_b_detections_return(r)
    \/ \E r \in Requests : Receive(r)

Spec == Init /\ [][Next]_vars

\* One client calling again and again while the clock advances; the random
\* source is held fixed.
NextClock ==
    \/ Tick
    \/ health(1)
    \/ get_system_a_detections_call(1)
    \/ get_system_a_detections_step(1, FixedRandom)
    \/ get_system_a_detections_return(1)
    \/ get_system_b_detections_call(1)
    \/ get_system_b_detections_step(1, FixedRandom)
    \/ get_system_b_detections_return(1)
    \/ Receive(1)

SpecClock == Init /\ [][NextClock]_vars

\* One request at a time under a stopped clock; every random draw enumerated.
NextRandom ==
    \/ health(1)
    \/ get_system_a_detections_call(1)
    \/ get_system_a_detections_step(1, RandomValues)
    \/ get_system_a_detections_return(1)
    \/ get_system_b_detections_call(1)
    \/ get_system_b_detections_step(1, RandomValues)
    \/ get_system_b_detections_return(1)
    \/ Receive(1)

SpecRandom == Init /\ [][NextRandom]_vars

----------------------------------------------------------------------------
(* Properties *)

\* The clients holding a response of endpoint e.
Held(e) == {r \in Requests : returned[r].endpoint = e}

Within(x, base, d) == base - d <= x /\ x <= base + d

\* The instant an ISO timestamp denotes, in ticks (datetime.fromisoformat).
IsoInstant(ts) ==
    ts.seconds * TicksPerSec + (IF "fraction" \in DOMAIN ts THEN ts.fraction ELSE 0)

\* tok is the last whitespace-delimited token of s: a non-empty run without
\* whitespace, preceded by whitespace or nothing, followed by whitespace only.
IsLastToken(tok, s) ==
    /\ tok # <<>>
    /\ \A j \in 1..Len(tok) : tok[j] \notin Whitespace
    /\ \E start \in 1..Len(s) :
         /\ start + Len(tok) - 1 <= Len(s)
         /\ SubSeq(s, start, start + Len(tok) - 1) = tok
         /\ start = 1 \/ s[start - 1] \in Whitespace
         /\ \A j \in (start + Len(tok))..Len(s) : s[j] \in Whitespace

\* C1: every list returned by /system-a/detections and /system-b/detections,
\* whatever calls came before, has as many entries as BASE_DRONES: exactly 5.
C1_ResponseLength ==
    \A r \in Held("a") \cup Held("b") :
        /\ Len(returned[r].body) = Len(BASE_DRONES)
        /\ Len(returned[r].body) = 5

\* A client holds a System A response after an earlier call of its own, while
\* another holds a System B response.
C1_Witness ==
    \E r \in Held("a"), q \in Held("b") : seen[r].endpoint # "none"

\* C2: the i-th entry's identifier is "A-" (System A) or "SN-" (System B)
\* followed by the i-th catalog id, so the identifiers of a response are
\* A-DRN-1..A-DRN-5 (SN-DRN-1..SN-DRN-5), each once, in catalog order.
C2_Identifiers ==
    /\ \A r \in Held("a") :
         /\ [i \in 1..Len(returned[r].body) |-> returned[r].body[i].Drone_id]
              = <<"A-DRN-1", "A-DRN-2", "A-DRN-3", "A-DRN-4", "A-DRN-5">>
         /\ \A i \in 1..Len(returned[r].body) :
              returned[r].body[i].Drone_id = "A-" \o BASE_DRONES[i].id
    /\ \A r \in Held("b") :
         /\ [i \in 1..Len(returned[r].body) |-> returned[r].body[i].Serial]
              = <<"SN-DRN-1", "SN-DRN-2", "SN-DRN-3", "SN-DRN-4", "SN-DRN-5">>
         /\ \A i \in 1..Len(returned[r].body) :
              returned[r].body[i].Serial = "SN-" \o BASE_DRONES[i].id

\* Both kinds of response are held at once.
C2_Witness ==
    /\ Held("a") # {}
    /\ Held("b") # {}
    /\ \E r \in Held("a") : returned[r].body[5].Drone_id = "A-DRN-5"

\* C3: for every random draw, each entry's latitude is within the catalog
\* latitude +/- 0.0005, its longitude within the catalog longitude +/- 0.0005
\* and its altitude within the catalog altitude +/- 5 (System A: Location_lat,
\* Location_lon, Locatin_alt; System B: coordinates[1], coordinates[0],
\* coordinates[2], here numbered from 1).
C3_JitterBounds ==
    /\ \A r \in Held("a") : \A i \in 1..Len(returned[r].body) :
         /\ Within(returned[r].body[i].Location_lat, BASE_DRONES[i].lat, 5)
         /\ Within(returned[r].body[i].Location_lon, BASE_DRONES[i].lon, 5)
         /\ Within(returned[r].body[i].Locatin_alt, BASE_DRONES[i].alt, 50000)
    /\ \A r \in Held("b") : \A i \in 1..Len(returned[r].body) :
         /\ Within(returned[r].body[i].Location.coordinates[2], BASE_DRONES[i].lat, 5)
         /\ Within(returned[r].body[i].Location.coordinates[1], BASE_DRONES[i].lon, 5)
         /\ Within(returned[r].body[i].Location.coordinates[3], BASE_DRONES[i].alt, 50000)

\* A System A response whose draws sit on both ends of their ranges.
C3_Witness ==
    \E r \in Held("a") :
        /\ returned[r].body[1].Location_lat = 320853 + 5
        /\ returned[r].body[2].Location_lat = 320861 - 5
        /\ returned[r].body[3].Location_lon = 347809 + 5
        /\ returned[r].body[4].Location_lon = 347831 - 5
        /\ returned[r].body[5].Locatin_alt = 1300000 + 50000
        /\ returned[r].body[1].Locatin_alt = 1200000 - 50000

\* C4: in System B, Model is the last whitespace-delimited token of the
\* catalog model ("DJI Mini 2" gives "2", "Autel Evo" gives "Evo") and
\* manufacturer is the catalog manufacturer; in System A the model string is
\* passed through unchanged.
C4_ModelFields ==
    /\ \A r \in Held("b") :
         /\ \A i \in 1..Len(returned[r].body) :
              /\ IsLastToken(returned[r].body[i].Model, BASE_DRONES[i].model)
              /\ returned[r].body[i].manufacturer = BASE_DRONES[i].manufacturer
         /\ returned[r].body[5].Model = <<"2">>
         /\ returned[r].body[3].Model = <<"E", "v", "o">>
    /\ \A r \in Held("a") : \A i \in 1..Len(returned[r].body) :
         returned[r].body[i].Drone_model = BASE_DRONES[i].model

\* A System B response with its five truncated models, beside a System A one.
C4_Witness ==
    /\ \E r \in Held("b") : Len(returned[r].body) = 5 /\ returned[r].body[4].manufacturer = "Parrot"
    /\ \E r \in Held("a") : Len(returned[r].body) = 5

\* C5: in System B, Location is {type: "Point", coordinates: [...]} with
\* exactly three numbers: longitude, latitude, altitude, each derived from the
\* catalog entry's lon, lat and alt.
C5_GeoJSONOrder ==
    \A r \in Held("b") : \A i \in 1..Len(returned[r].body) :
        LET loc == returned[r].body[i].Location IN
        /\ DOMAIN loc = {"type", "coordinates"}
        /\ loc.type = "Point"
        /\ Len(loc.coordinates) = 3
        /\ \A j \in 1..3 : loc.coordinates[j] \in Int
        /\ Within(loc.coordinates[1], BASE_DRONES[i].lon, DefaultDelta)
        /\ Within(loc.coordinates[2], BASE_DRONES[i].lat, DefaultDelta)
        /\ Within(loc.coordinates[3], BASE_DRONES[i].alt, AltNoise)

\* A System B response whose first point is jittered in opposite directions.
C5_Witness ==
    \E r \in Held("b") :
        /\ returned[r].body[1].Location.coordinates[1] = 347818 + 5
        /\ returned[r].body[1].Location.coordinates[2] = 320853 - 5
        /\ returned[r].body[5].Location.coordinates[3] = 1300000 + 50000

\* C6: every /health response is exactly {"status": "ok"}, whatever calls
\* preceded it or run beside it.
C6_HealthOk ==
    \A r \in Held("health") : returned[r].body = [status |-> "ok"]

\* A /health response held by a client that called a detections endpoint
\* before, while another client's detections request is half way.
C6_Witness ==
    \E r \in Held("health"), q \in Requests :
        /\ seen[r].endpoint \in {"a", "b"}
        /\ pc[q] \in {"a_loop", "b_loop"}
        /\ idx[q] \in 1..4

\* C7: two consecutive calls to the same detections endpoint produce
\* different timestamps: the Timestamp values (System A) and the
\* Detection_timestamp values (System B) of the second call differ from those
\* of the first.
C7_ConsecutiveTimestampsDiffer ==
    \A r \in Held("a") \cup Held("b") :
        seen[r].endpoint = returned[r].endpoint
            => Timestamps(returned[r]) # seen[r].timestamps

C9_OwnEntries(r) ==
    /\ pc[r] = "idle" => responses[r] = <<>>
    /\ pc[r] # "idle" => Len(responses[r]) = idx[r]
    /\ pc[r] = "a_loop" => \A i \in 1..Len(responses[r]) :
         /\ "Drone_id" \in DOMAIN responses[r][i]
         /\ responses[r][i].Drone_id = "A-" \o BASE_DRONES[i].id
    /\ pc[r] = "b_loop" => \A i \in 1..Len(responses[r]) :
         /\ "Serial" \in DOMAIN responses[r][i]
         /\ responses[r][i].Serial = "SN-" \o BASE_DRONES[i].id
    /\ returned[r].endpoint = "a" =>
         [i \in 1..Len(returned[r].body) |-> returned[r].body[i].Drone_id]
            = [i \in 1..5 |-> "A-" \o BASE_DRONES[i].id]
    /\ returned[r].endpoint = "b" =>
         [i \in 1..Len(returned[r].body) |-> returned[r].body[i].Serial]
            = [i \in 1..5 |-> "SN-" \o BASE_DRONES[i].id]

\* A step changes at most one request's list, by one entry appended or by
\* emptying it, and leaves the catalog alone.
C9_LocalStep ==
    /\ base_drones' = base_drones
    /\ \A r \in Requests :
         responses'[r] # responses[r] =>
            /\ \A q \in Requests \ {r} : responses'[q] = responses[q]
            /\ \/ responses'[r] = <<>>
               \/ /\ Len(responses'[r]) = Len(responses[r]) + 1
                  /\ SubSeq(responses'[r], 1, Len(responses[r])) = responses[r]

NonDecreasing(ts) == \A i \in 1..Len(ts) : \A j \in i..Len(ts) : ts[i] <= ts[j]

\* C10: each entry is stamped by its own clock read, after the previous
\* entry's: the timestamps of one response never decrease in catalog order
\* (and may differ, see the witness).
C10_TimestampsOrdered ==
    \A r \in Requests :
        /\ pc[r] = "a_loop" =>
             NonDecreasing([i \in 1..Len(responses[r]) |-> responses[r][i].Timestamp])
        /\ pc[r] = "b_loop" =>
             NonDecreasing([i \in 1..Len(responses[r]) |->
                               IsoInstant(responses[r][i].Detection_timestamp)])
        /\ returned[r].endpoint = "a" => NonDecreasing(Timestamps(returned[r]))
        /\ returned[r].endpoint = "b" =>
             NonDecreasing([i \in 1..Len(returned[r].body) |->
                               IsoInstant(returned[r].body[i].Detection_timestamp)])

\* A System A response with two different timestamps, read by a client whose
\* previous System B response had different timestamps too.
C10_Witness ==
    \E r \in Held("a") :
        /\ returned[r].body[1].Timestamp < returned[r].body[5].Timestamp
        /\ seen[r].endpoint = "b"
        /\ seen[r].timestamps[1] # seen[r].timestamps[5]

====
